---- MODULE Spec2Model ----
(***************************************************************************)
(* Model of ticket_server.cpp: a single-threaded UDP ticket reservation    *)
(* server.  One step of the model is one iteration of the loop in main():  *)
(* read one datagram into the (persistent) receive buffer, sample the      *)
(* clock, sweep expired reservations, dispatch on the first byte of the    *)
(* buffer and send at most one reply.                                      *)
(*                                                                         *)
(* The receive buffer and the datagrams are sequences of bytes (0..255);   *)
(* multi-byte fields are converted as ntohl/ntohs/htonl do it.             *)
(***************************************************************************)
EXTENDS Integers, Sequences, FiniteSets, TLC

(***************************************************************************)
(* Program constants.                                                      *)
(***************************************************************************)
TICKET_CODE_BASE == 36
TICKET_LENGTH == 7
BEG_BIG_LETTERS == 65
BEG_NUMBERS == 48
BEG_COOKIE == 33
END_COOKIE == 126
COOKIE_LENGTH == 48
ID_LIMIT == 999999
UDP_DATAGRAM_MAX_SIZE == 65507
sizeof_received_message_t == 53

GET_EVENTS == 1
EVENTS == 2
GET_RESERVATION == 3
RESERVATION == 4
GET_TICKETS == 5
TICKETS == 6
BAD_REQUEST == 255

(***************************************************************************)
(* Bounds of the model.                                                    *)
(***************************************************************************)
MaxTime == 1            \* std::time() returns a value in 0..MaxTime
MaxTimeout == 1         \* the -t argument is in 1..MaxTimeout
MaxReservations == 2    \* at most this many successful reservations
MaxDatagrams == 4       \* at most this many datagrams are received

(***************************************************************************)
(* Byte-order helpers: a field in a message struct is the sequence of its  *)
(* bytes as they are on the wire (most significant byte first).  The       *)
(* counters and times of the model stay far below 2^31, so the uint32_t    *)
(* and uint64_t arithmetic of the program is written without its modulus;  *)
(* uint16_t and uint8_t arithmetic keeps it.                               *)
(***************************************************************************)
htonl(n) ==
    << (n \div 16777216) % 256, (n \div 65536) % 256, (n \div 256) % 256, n % 256 >>

htons(n) ==
    << (n \div 256) % 256, n % 256 >>

ntohl(b) ==
    b[1] * 16777216 + b[2] * 65536 + b[3] * 256 + b[4]

ntohs(b) ==
    b[1] * 256 + b[2]

\* The values of the model are below 2^32: the four high bytes are 0.
htobe64(n) ==
    << 0, 0, 0, 0 >> \o htonl(n)

be64toh(b) ==
    ntohl(SubSeq(b, 5, 8))

(***************************************************************************)
(* The startup catalog (get_events_from_file): event_id is the position,   *)
(* counted from 0; events[i + 1] is the event with event_id i.             *)
(***************************************************************************)
get_events_from_file ==
    << [event_id |-> 0, description_length |-> 9, ticket_count |-> 1],
       [event_id |-> 1, description_length |-> 6, ticket_count |-> 9358] >>

(***************************************************************************)
(* generate_cookie: 48 bytes, each in BEG_COOKIE..END_COOKIE.  The model   *)
(* draws the cookie from two of them.                                      *)
(***************************************************************************)
generate_cookie ==
    { [i \in 1..COOKIE_LENGTH |-> BEG_COOKIE],
      [i \in 1..COOKIE_LENGTH |-> IF i = COOKIE_LENGTH THEN END_COOKIE ELSE BEG_COOKIE] }

(***************************************************************************)
(* Faulty variant of the digits of generate_ticket_code, used to see that  *)
(* the properties below depend on it: a digit above 9 is turned into a     *)
(* character without taking the 10 off.                                    *)
(***************************************************************************)
RECURSIVE ticket_code_digits_past_Z(_)
ticket_code_digits_past_Z(ticket_number) ==
    IF ticket_number > 0
    THEN LET n == ticket_number \div TICKET_CODE_BASE
             r == (ticket_number - (n * TICKET_CODE_BASE)) % 256
         IN  << IF r <= 9 THEN r + BEG_NUMBERS ELSE r + BEG_BIG_LETTERS >>
                 \o ticket_code_digits_past_Z(n)
    ELSE << >>

(***************************************************************************)
(* generate_ticket_code: the digits of ticket_number in base 36, pushed    *)
(* back as they are produced, then '0' pushed back until 7 characters.     *)
(***************************************************************************)
RECURSIVE ticket_code_digits(_)
ticket_code_digits(ticket_number) ==
    IF ticket_number > 0
    THEN LET n == ticket_number \div TICKET_CODE_BASE
             r == (ticket_number - (n * TICKET_CODE_BASE)) % 256
         IN  << IF r <= 9 THEN r + BEG_NUMBERS ELSE r + BEG_BIG_LETTERS - 10 >>
                 \o ticket_code_digits(n)
    ELSE << >>

generate_ticket_code(ticket_number) ==
    LET code == ticket_code_digits(ticket_number)
        length == TICKET_LENGTH - Len(code)
    IN  code \o [i \in 1..(IF length > 0 THEN length ELSE 0) |-> BEG_NUMBERS]

(***************************************************************************)
(* Faulty variant of the cookie comparison, used to see that the           *)
(* properties below depend on it: the last character is not compared.      *)
(***************************************************************************)
RECURSIVE strncmp_eq_short(_, _, _, _)
strncmp_eq_short(a, b, i, n) ==
    IF i > n - 1 THEN TRUE
    ELSE IF a[i] # b[i] THEN FALSE
    ELSE IF a[i] = 0 THEN TRUE
    ELSE strncmp_eq_short(a, b, i + 1, n)

(***************************************************************************)
(* strncmp(a, b, n) = 0: equal up to the first NUL or up to n characters.  *)
(***************************************************************************)
RECURSIVE strncmp_eq(_, _, _, _)
strncmp_eq(a, b, i, n) ==
    IF i > n THEN TRUE
    ELSE IF a[i] # b[i] THEN FALSE
    ELSE IF a[i] = 0 THEN TRUE
    ELSE strncmp_eq(a, b, i + 1, n)

(***************************************************************************)
(* State.                                                                  *)
(*   TicketController: queue_reservations, reservations, events,           *)
(*     ticket_counter, reservation_counter, timeout.                       *)
(*   main(): received_message (the receive buffer, kept across             *)
(*     iterations), message_time (the clock value of the last iteration),  *)
(*     running (FALSE once an exception has left main).                    *)
(* Observation of the run, not state of the program:                       *)
(*   datagram_length  the length of the last datagram received,            *)
(*   sent      the messages sent in the last iteration (none or one),      *)
(*   swept     the TicketController after the sweep of the last iteration, *)
(*   issued    the RESERVATION replies sent so far, in order,              *)
(*   collected the TICKETS replies sent so far,                            *)
(*   steady    the clock values seen so far were non-decreasing,           *)
(*   received  the number of datagrams received so far.                    *)
(***************************************************************************)
VARIABLES queue_reservations, reservations, events, ticket_counter,
          reservation_counter, timeout, received_message, message_time,
          running, datagram_length, sent, swept, issued, collected, steady, received

vars == << queue_reservations, reservations, events, ticket_counter,
           reservation_counter, timeout, received_message, message_time,
           running, datagram_length, sent, swept, issued, collected, steady, received >>

\* The TicketController as one value.
Controller ==
    [ queue_reservations  |-> queue_reservations,
      reservations        |-> reservations,
      events              |-> events,
      ticket_counter      |-> ticket_counter,
      reservation_counter |-> reservation_counter,
      timeout             |-> timeout ]

\* Faulty variant of Reservation::Reservation, used to see that the
\* properties below depend on it: the timeout is counted once per ticket.
NewReservation_per_ticket(timeout_, reservation_id, event_id, ticket_count, time, cookie) ==
    [ expiration_time     |-> (time + timeout_ * ticket_count),
      reservation_id      |-> reservation_id,
      event_id            |-> event_id,
      first_ticket_number |-> 0,
      ticket_count        |-> ticket_count,
      cookie              |-> cookie ]

\* Reservation::Reservation
NewReservation(timeout_, reservation_id, event_id, ticket_count, time, cookie) ==
    [ expiration_time     |-> (time + timeout_),
      reservation_id      |-> reservation_id,
      event_id            |-> event_id,
      first_ticket_number |-> 0,
      ticket_count        |-> ticket_count,
      cookie              |-> cookie ]

\* std::unordered_map::insert: an existing key keeps its value.
map_insert(m, key, value) ==
    [k \in DOMAIN m \cup {key} |-> IF k \in DOMAIN m THEN m[k] ELSE value]

\* std::unordered_map::erase
map_erase(m, key) ==
    [k \in DOMAIN m \ {key} |-> m[k]]

(***************************************************************************)
(* Faulty variants of remove_expired_reservations, used to see that the    *)
(* properties below depend on it: the loop with one fault,                 *)
(*   "refund"    an expired reservation is erased without the refund,      *)
(*   "break"     the loop never stops at an entry that has not expired,    *)
(*   "collected" a collected reservation is refunded and erased too,       *)
(*   "late"      an entry expires only after its expiration_time.          *)
(***************************************************************************)
RECURSIVE faulty_remove_expired(_, _, _)
faulty_remove_expired(c, time, fault) ==
    IF c.queue_reservations = << >>
    THEN [controller |-> c, thrown |-> FALSE]
    ELSE LET reservation_pair == Head(c.queue_reservations)
             stop == IF fault = "break" THEN FALSE
                     ELSE IF fault = "late" THEN reservation_pair[2] >= time
                     ELSE reservation_pair[2] > time
         IN  IF stop
             THEN [controller |-> c, thrown |-> FALSE]
             ELSE LET popped == [c EXCEPT !.queue_reservations = Tail(@)]
                  IN  IF reservation_pair[1] \notin DOMAIN popped.reservations
                      THEN [controller |-> popped, thrown |-> TRUE]
                      ELSE LET reservation == popped.reservations[reservation_pair[1]]
                           IN  IF reservation.first_ticket_number # 0 /\ fault # "collected"
                               THEN faulty_remove_expired(popped, time, fault)
                               ELSE faulty_remove_expired(
                                      [popped EXCEPT
                                         !.events[reservation.event_id + 1].ticket_count =
                                             IF fault = "refund" THEN @
                                             ELSE (@ + reservation.ticket_count) % 65536,
                                         !.reservations =
                                             map_erase(@, reservation.reservation_id)],
                                      time, fault)

remove_expired_without_refund(c, time) == faulty_remove_expired(c, time, "refund")

remove_expired_without_break(c, time) == faulty_remove_expired(c, time, "break")

remove_expired_collected_too(c, time) == faulty_remove_expired(c, time, "collected")

remove_expired_late(c, time) == faulty_remove_expired(c, time, "late")

(***************************************************************************)
(* TicketController::remove_expired_reservations.  The result is the       *)
(* controller after the loop and whether reservations.at() threw.          *)
(***************************************************************************)
RECURSIVE remove_expired_reservations(_, _)
remove_expired_reservations(c, time) ==
    IF c.queue_reservations = << >>
    THEN [controller |-> c, thrown |-> FALSE]
    ELSE LET reservation_pair == Head(c.queue_reservations)
         IN  IF reservation_pair[2] > time
             THEN [controller |-> c, thrown |-> FALSE]
             ELSE LET popped == [c EXCEPT !.queue_reservations = Tail(@)]
                  IN  IF reservation_pair[1] \notin DOMAIN popped.reservations
                      THEN [controller |-> popped, thrown |-> TRUE]
                      ELSE LET reservation == popped.reservations[reservation_pair[1]]
                           IN  IF reservation.first_ticket_number # 0
                               THEN remove_expired_reservations(popped, time)
                               ELSE remove_expired_reservations(
                                      [popped EXCEPT
                                         !.events[reservation.event_id + 1].ticket_count =
                                             (@ + reservation.ticket_count) % 65536,
                                         !.reservations =
                                             map_erase(@, reservation.reservation_id)],
                                      time)

(***************************************************************************)
(* Faulty variant of the loop of get_events, used to see that the          *)
(* properties below depend on it: an event that fills the datagram to its  *)
(* last byte is left out.                                                  *)
(***************************************************************************)
RECURSIVE get_events_loop_strict(_, _, _, _)
get_events_loop_strict(evs, i, result, message_size) ==
    IF i > Len(evs)
    THEN << result, message_size >>
    ELSE LET event_size == 1 + 2 + 4 + evs[i].description_length
         IN  IF message_size + event_size < UDP_DATAGRAM_MAX_SIZE - 1
             THEN get_events_loop_strict(evs, i + 1, Append(result, evs[i]),
                                         message_size + event_size)
             ELSE << result, message_size >>

(***************************************************************************)
(* TicketController::get_events: the prefix of the catalog that fits and   *)
(* its size without the message id.                                        *)
(***************************************************************************)
RECURSIVE get_events_loop(_, _, _, _)
get_events_loop(evs, i, result, message_size) ==
    IF i > Len(evs)
    THEN << result, message_size >>
    ELSE LET event_size == 1 + 2 + 4 + evs[i].description_length
         IN  IF message_size + event_size <= UDP_DATAGRAM_MAX_SIZE - 1
             THEN get_events_loop(evs, i + 1, Append(result, evs[i]),
                                  message_size + event_size)
             ELSE << result, message_size >>

get_events(c) ==
    get_events_loop(c.events, 1, << >>, 0)

(***************************************************************************)
(* Faulty variants of get_reservation, used to see that the properties     *)
(* below depend on it: the function with one fault,                        *)
(*   "inventory" a request for all the tickets left is refused,            *)
(*   "counter"   a request refused for too few tickets uses up an id,      *)
(*   "reuse"     the id is taken from the size of the reservation map,     *)
(*   "queue"     the queue entry carries the time of the request instead   *)
(*               of the expiration_time,                                   *)
(*   "unqueued"  no queue entry is pushed.                                 *)
(***************************************************************************)
faulty_get_reservation(c, message, time, cookie, fault) ==
    LET refused == [bad_request |-> TRUE, controller |-> c]
        cmp == TICKET_LENGTH * message.ticket_count + 7
        id == IF fault = "reuse"
              THEN ID_LIMIT + 1 + Cardinality(DOMAIN c.reservations)
              ELSE c.reservation_counter
    IN  IF message.ticket_count = 0 THEN refused
        ELSE IF cmp > UDP_DATAGRAM_MAX_SIZE THEN refused
        ELSE IF message.event_id >= Len(c.events) THEN refused
        ELSE IF \/ c.events[message.event_id + 1].ticket_count < message.ticket_count
                \/ /\ fault = "inventory"
                   /\ c.events[message.event_id + 1].ticket_count = message.ticket_count
             THEN IF fault = "counter"
                  THEN [refused EXCEPT !.controller.reservation_counter = @ + 1]
                  ELSE refused
        ELSE LET new_reservation ==
                     NewReservation(c.timeout, id,
                                    message.event_id, message.ticket_count, time, cookie)
             IN  [ bad_request |-> FALSE,
                   reservation |-> new_reservation,
                   controller  |->
                     [c EXCEPT
                        !.events[message.event_id + 1].ticket_count =
                            @ - message.ticket_count,
                        !.reservation_counter = @ + 1,
                        !.reservations =
                            map_insert(@, new_reservation.reservation_id, new_reservation),
                        !.queue_reservations =
                            IF fault = "unqueued" THEN @
                            ELSE Append(@, << new_reservation.reservation_id,
                                              IF fault = "queue" THEN time
                                              ELSE new_reservation.expiration_time >>)] ]

get_reservation_refusing_last_tickets(c, message, time, cookie) ==
    faulty_get_reservation(c, message, time, cookie, "inventory")

get_reservation_counting_refusals(c, message, time, cookie) ==
    faulty_get_reservation(c, message, time, cookie, "counter")

get_reservation_reusing_ids(c, message, time, cookie) ==
    faulty_get_reservation(c, message, time, cookie, "reuse")

get_reservation_queueing_request_time(c, message, time, cookie) ==
    faulty_get_reservation(c, message, time, cookie, "queue")

get_reservation_without_queue_entry(c, message, time, cookie) ==
    faulty_get_reservation(c, message, time, cookie, "unqueued")

(***************************************************************************)
(* TicketController::get_reservation.  message is the request after        *)
(* change_reservation_endian; cookie is what generate_cookie returns.      *)
(* bad_request: the call threw bad_request_exception; controller is the    *)
(* controller as the call left it, thrown or not.                          *)
(***************************************************************************)
get_reservation(c, message, time, cookie) ==
    LET refused == [bad_request |-> TRUE, controller |-> c]
        cmp == TICKET_LENGTH * message.ticket_count + 7
    IN  IF message.ticket_count = 0 THEN refused
        ELSE IF cmp > UDP_DATAGRAM_MAX_SIZE THEN refused
        ELSE IF message.event_id >= Len(c.events) THEN refused
        ELSE IF c.events[message.event_id + 1].ticket_count < message.ticket_count
             THEN refused
        ELSE LET new_reservation ==
                     NewReservation(c.timeout, c.reservation_counter,
                                    message.event_id, message.ticket_count, time, cookie)
             IN  [ bad_request |-> FALSE,
                   reservation |-> new_reservation,
                   controller  |->
                     [c EXCEPT
                        !.events[message.event_id + 1].ticket_count =
                            @ - message.ticket_count,
                        !.reservation_counter = @ + 1,
                        !.reservations =
                            map_insert(@, new_reservation.reservation_id, new_reservation),
                        !.queue_reservations =
                            Append(@, << new_reservation.reservation_id,
                                         new_reservation.expiration_time >>)] ]

(***************************************************************************)
(* Faulty variant of get_tickets: the first redemption records             *)
(* first_ticket_number and leaves ticket_counter where it was.             *)
(***************************************************************************)
get_tickets_without_advance(c, message) ==
    IF message.reservation_id \notin DOMAIN c.reservations
    THEN [bad_request |-> TRUE, controller |-> c]
    ELSE LET reservation == c.reservations[message.reservation_id]
         IN  IF ~ strncmp_eq(message.cookie, reservation.cookie, 1, COOKIE_LENGTH)
             THEN [bad_request |-> TRUE, controller |-> c]
             ELSE LET first == IF reservation.first_ticket_number = 0
                               THEN c.ticket_counter
                               ELSE reservation.first_ticket_number
                  IN  [ bad_request |-> FALSE,
                        controller  |->
                          [c EXCEPT !.reservations[message.reservation_id]
                                        .first_ticket_number = first],
                        tickets     |-> [i \in 1..reservation.ticket_count |->
                                           generate_ticket_code(first + (i - 1))] ]

(***************************************************************************)
(* Faulty variant of get_tickets: a repeated redemption advances           *)
(* ticket_counter again.                                                   *)
(***************************************************************************)
get_tickets_advancing_again(c, message) ==
    IF message.reservation_id \notin DOMAIN c.reservations
    THEN [bad_request |-> TRUE, controller |-> c]
    ELSE LET reservation == c.reservations[message.reservation_id]
         IN  IF ~ strncmp_eq(message.cookie, reservation.cookie, 1, COOKIE_LENGTH)
             THEN [bad_request |-> TRUE, controller |-> c]
             ELSE LET first == IF reservation.first_ticket_number = 0
                               THEN c.ticket_counter
                               ELSE reservation.first_ticket_number
                  IN  [ bad_request |-> FALSE,
                        controller  |->
                          [c EXCEPT !.reservations[message.reservation_id]
                                        .first_ticket_number = first,
                                    !.ticket_counter = @ + reservation.ticket_count],
                        tickets     |-> [i \in 1..reservation.ticket_count |->
                                           generate_ticket_code(first + (i - 1))] ]

(***************************************************************************)
(* Faulty variant of get_tickets: a reservation is erased from the map     *)
(* when its tickets are handed out, while its entry stays in the queue.    *)
(***************************************************************************)
get_tickets_erasing(c, message) ==
    IF message.reservation_id \notin DOMAIN c.reservations
    THEN [bad_request |-> TRUE, controller |-> c]
    ELSE LET reservation == c.reservations[message.reservation_id]
         IN  IF ~ strncmp_eq(message.cookie, reservation.cookie, 1, COOKIE_LENGTH)
             THEN [bad_request |-> TRUE, controller |-> c]
             ELSE [ bad_request |-> FALSE,
                    controller  |->
                      [c EXCEPT !.reservations = map_erase(@, message.reservation_id),
                                !.ticket_counter = @ + reservation.ticket_count],
                    tickets     |-> [i \in 1..reservation.ticket_count |->
                                       generate_ticket_code(c.ticket_counter + (i - 1))] ]

(***************************************************************************)
(* TicketController::get_tickets.  message is the request after            *)
(* change_tickets_endian.                                                  *)
(***************************************************************************)
get_tickets(c, message) ==
    IF message.reservation_id \notin DOMAIN c.reservations
    THEN [bad_request |-> TRUE, controller |-> c]
    ELSE LET reservation == c.reservations[message.reservation_id]
         IN  IF ~ strncmp_eq(message.cookie, reservation.cookie, 1, COOKIE_LENGTH)
             THEN [bad_request |-> TRUE, controller |-> c]
             ELSE LET first == IF reservation.first_ticket_number = 0
                               THEN c.ticket_counter
                               ELSE reservation.first_ticket_number
                      after == IF reservation.first_ticket_number = 0
                               THEN [c EXCEPT
                                       !.reservations[message.reservation_id]
                                           .first_ticket_number = c.ticket_counter,
                                       !.ticket_counter =
                                           @ + reservation.ticket_count]
                               ELSE c
                  IN  [ bad_request |-> FALSE,
                        controller  |-> after,
                        tickets     |-> [i \in 1..reservation.ticket_count |->
                                           generate_ticket_code(first + (i - 1))] ]

(***************************************************************************)
(* read_message: recvfrom copies at most sizeof(received_message_t) bytes  *)
(* of the datagram over the start of the buffer and returns how many; the  *)
(* rest of the buffer is left as it was.  Only len < 0 is looked at.       *)
(***************************************************************************)
read_message(buffer, datagram) ==
    LET n == IF Len(datagram) < sizeof_received_message_t
             THEN Len(datagram) ELSE sizeof_received_message_t
    IN  [ len    |-> n,
          buffer |-> [i \in 1..sizeof_received_message_t |->
                        IF i <= n THEN datagram[i] ELSE buffer[i]] ]

\* The members of received_message_t, as the bytes of the buffer.
message_id(buffer) ==
    buffer[1]

reservation_msg(buffer) ==
    [event_id |-> SubSeq(buffer, 2, 5), ticket_count |-> SubSeq(buffer, 6, 7)]

tickets_msg(buffer) ==
    [reservation_id |-> SubSeq(buffer, 2, 5),
     cookie |-> SubSeq(buffer, 6, 5 + COOKIE_LENGTH)]

change_reservation_endian(message) ==
    [ticket_count |-> ntohs(message.ticket_count), event_id |-> ntohl(message.event_id)]

change_tickets_endian(message) ==
    [reservation_id |-> ntohl(message.reservation_id), cookie |-> message.cookie]

(***************************************************************************)
(* The replies, as the fields that go on the wire.                         *)
(***************************************************************************)
send_events(evs) ==
    [ message_id |-> EVENTS,
      size       |-> evs[2] + 1,
      events     |-> [i \in 1..Len(evs[1]) |->
                        [ event_id           |-> htonl(evs[1][i].event_id),
                          ticket_count       |-> htons(evs[1][i].ticket_count),
                          description_length |-> evs[1][i].description_length % 256 ]] ]

send_reservation(reservation) ==
    [ message_id      |-> RESERVATION,
      ticket_count    |-> htons(reservation.ticket_count),
      event_id        |-> htonl(reservation.event_id),
      reservation_id  |-> htonl(reservation.reservation_id),
      expiration_time |-> htobe64(reservation.expiration_time),
      cookie          |-> SubSeq(reservation.cookie, 1, COOKIE_LENGTH) ]

send_tickets(tickets, reservation_id) ==
    [ message_id     |-> TICKETS,
      reservation_id |-> reservation_id,
      ticket_count   |-> htons(Len(tickets)),
      tickets        |-> [i \in 1..Len(tickets) |-> SubSeq(tickets[i], 1, TICKET_LENGTH)] ]

send_bad_request(id) ==
    [ message_id |-> BAD_REQUEST, id |-> id ]

(***************************************************************************)
(* Faulty variant of the loop of main(), used to see that the properties   *)
(* below depend on it: the request is handled first, on the controller as  *)
(* the last iteration left it, and the sweep runs after it.                *)
(***************************************************************************)
main_loop_sweeping_last(buffer, c, datagram, time, cookie) ==
    LET buf == read_message(buffer, datagram).buffer
        handled ==
            IF message_id(buf) = GET_EVENTS
            THEN [controller |-> c, sent |-> << send_events(get_events(c)) >>]
            ELSE IF message_id(buf) = GET_RESERVATION
            THEN LET got == get_reservation(c,
                                change_reservation_endian(reservation_msg(buf)),
                                time, cookie)
                 IN  [controller |-> got.controller,
                      sent |-> IF got.bad_request
                               THEN << send_bad_request(reservation_msg(buf).event_id) >>
                               ELSE << send_reservation(got.reservation) >>]
            ELSE IF message_id(buf) = GET_TICKETS
            THEN LET got == get_tickets(c, change_tickets_endian(tickets_msg(buf)))
                 IN  [controller |-> got.controller,
                      sent |-> IF got.bad_request
                               THEN << send_bad_request(tickets_msg(buf).reservation_id) >>
                               ELSE << send_tickets(got.tickets,
                                                    tickets_msg(buf).reservation_id) >>]
            ELSE [controller |-> c, sent |-> << >>]
        sweep == remove_expired_reservations(handled.controller, time)
    IN  [ received_message |-> buf, swept |-> c, controller |-> sweep.controller,
          sent |-> handled.sent, thrown |-> sweep.thrown ]

(***************************************************************************)
(* One iteration of the loop of main() on the datagram, with time the      *)
(* value of std::time() and cookie the value generate_cookie returns if    *)
(* it is called: the buffer, the controller after the sweep, the           *)
(* controller at the end, the messages sent and whether an exception left  *)
(* main (out_of_range from the sweep is caught nowhere).  What a function  *)
(* did to the controller before it threw bad_request_exception stays.      *)
(***************************************************************************)
main_loop(buffer, c, datagram, time, cookie) ==
    LET read == read_message(buffer, datagram)
        buf == read.buffer
        sweep == remove_expired_reservations(c, time)
        after == sweep.controller
        base == [ received_message |-> buf, swept |-> after,
                  controller |-> after, sent |-> << >>, thrown |-> FALSE ]
    IN  IF sweep.thrown
        THEN [base EXCEPT !.thrown = TRUE]
        ELSE IF message_id(buf) = GET_EVENTS
        THEN [base EXCEPT !.sent = << send_events(get_events(after)) >>]
        ELSE IF message_id(buf) = GET_RESERVATION
        THEN LET got == get_reservation(after,
                            change_reservation_endian(reservation_msg(buf)), time, cookie)
             IN  IF got.bad_request
                 THEN [base EXCEPT
                         !.controller = got.controller,
                         !.sent = << send_bad_request(reservation_msg(buf).event_id) >>]
                 ELSE [base EXCEPT
                         !.controller = got.controller,
                         !.sent = << send_reservation(got.reservation) >>]
        ELSE IF message_id(buf) = GET_TICKETS
        THEN LET got == get_tickets(after, change_tickets_endian(tickets_msg(buf)))
             IN  IF got.bad_request
                 THEN [base EXCEPT
                         !.controller = got.controller,
                         !.sent = << send_bad_request(tickets_msg(buf).reservation_id) >>]
                 ELSE [base EXCEPT
                         !.controller = got.controller,
                         !.sent = << send_tickets(got.tickets,
                                                  tickets_msg(buf).reservation_id) >>]
        ELSE base

(***************************************************************************)
(* The datagrams of the model: the three requests with fields from small   *)
(* sets, and datagrams that are not requests (empty, cut short, too long,  *)
(* unknown first byte).                                                    *)
(***************************************************************************)
get_events_datagram ==
    << GET_EVENTS >>

get_reservation_datagram(event_id, ticket_count) ==
    << GET_RESERVATION >> \o htonl(event_id) \o htons(ticket_count)

get_tickets_datagram(reservation_id, cookie) ==
    << GET_TICKETS >> \o htonl(reservation_id) \o cookie

\* event_id and ticket_count of the GET_RESERVATION requests: every reason
\* to refuse (no ticket, a reply too long, no such event, too few tickets
\* left) and requests that are granted.
ReservationRequests ==
    { << 0, 0 >>, << 0, 1 >>, << 1, 2 >>, << 1, 9358 >>,
      << Len(get_events_from_file), 1 >> }

\* The ids of the GET_TICKETS requests: the ones the model can issue.
ReservationIds == (ID_LIMIT + 1)..(ID_LIMIT + MaxReservations)

\* A cookie no reservation has: it differs from each one in the last byte.
OtherCookie ==
    [i \in 1..COOKIE_LENGTH |-> IF i = COOKIE_LENGTH THEN 0 ELSE BEG_COOKIE]

Requests ==
    { get_events_datagram }
      \cup { get_reservation_datagram(q[1], q[2]) : q \in ReservationRequests }
      \cup { get_tickets_datagram(r, k) : r \in ReservationIds, k \in generate_cookie }

NotRequests ==
    { << >>, << GET_RESERVATION >>, << EVENTS >>,
      get_events_datagram \o << 0, 0, 0, 0, 0, 1 >>,
      get_tickets_datagram(ID_LIMIT + 1, OtherCookie) \o << 0 >> }

Datagrams == Requests \cup NotRequests

(***************************************************************************)
(* Init: the state when main() enters its loop.                            *)
(***************************************************************************)
Init ==
    /\ queue_reservations = << >>
    /\ reservations = << >>
    /\ events = get_events_from_file
    /\ ticket_counter = 1
    /\ reservation_counter = ID_LIMIT + 1
    /\ timeout \in 1..MaxTimeout
    /\ received_message = [i \in 1..sizeof_received_message_t |-> 0]
    /\ message_time = 0
    /\ running = TRUE
    /\ datagram_length = 0
    /\ sent = << >>
    /\ swept = Controller
    /\ issued = << >>
    /\ collected = {}
    /\ steady = TRUE
    /\ received = 0

\* The state after an iteration on a datagram of that length at clock value
\* time, whose outcome is r.
Finish(r, length, time) ==
    /\ queue_reservations' = r.controller.queue_reservations
    /\ reservations' = r.controller.reservations
    /\ events' = r.controller.events
    /\ ticket_counter' = r.controller.ticket_counter
    /\ reservation_counter' = r.controller.reservation_counter
    /\ timeout' = r.controller.timeout
    /\ received_message' = r.received_message
    /\ message_time' = time
    /\ running' = ~ r.thrown
    /\ datagram_length' = length
    /\ sent' = r.sent
    /\ swept' = r.swept
    /\ issued' = IF r.sent # << >> /\ r.sent[1].message_id = RESERVATION
                 THEN Append(issued, r.sent[1]) ELSE issued
    /\ collected' = IF r.sent # << >> /\ r.sent[1].message_id = TICKETS
                    THEN collected \cup {r.sent[1]} ELSE collected
    /\ steady' = (steady /\ time >= message_time)
    /\ received' = received + 1

\* One iteration of the loop, while main is running and within the bounds.
Iteration(datagram, time, cookie) ==
    /\ running
    /\ received < MaxDatagrams
    /\ \E r \in {main_loop(received_message, Controller, datagram, time, cookie)} :
        /\ r.controller.reservation_counter <= ID_LIMIT + 1 + MaxReservations
        /\ Finish(r, Len(datagram), time)

Dispatched(datagram) ==
    message_id(read_message(received_message, datagram).buffer)

GetEvents ==
    \E datagram \in Datagrams, time \in 0..MaxTime :
        /\ Dispatched(datagram) = GET_EVENTS
        /\ Iteration(datagram, time, OtherCookie)

GetReservation ==
    \E datagram \in Datagrams, time \in 0..MaxTime, cookie \in generate_cookie :
        /\ Dispatched(datagram) = GET_RESERVATION
        /\ Iteration(datagram, time, cookie)

GetTickets ==
    \E datagram \in Datagrams, time \in 0..MaxTime :
        /\ Dispatched(datagram) = GET_TICKETS
        /\ Iteration(datagram, time, OtherCookie)

Default ==
    \E datagram \in Datagrams, time \in 0..MaxTime :
        /\ Dispatched(datagram) \notin {GET_EVENTS, GET_RESERVATION, GET_TICKETS}
        /\ Iteration(datagram, time, OtherCookie)

Next ==
    \/ GetEvents
    \/ GetReservation
    \/ GetTickets
    \/ Default

Spec == Init /\ [][Next]_vars

(***************************************************************************)
(* The server started on one of several catalogs.  get_events_from_file    *)
(* takes every line as a description, whatever its length.                 *)
(* long_events_file is a catalog that does not fit into one EVENTS reply:  *)
(* the two events of the catalog above, an event whose description fills   *)
(* the datagram to its last byte, and one more event.                      *)
(***************************************************************************)
long_events_file ==
    get_events_from_file \o
    << [ event_id           |-> 2,
         description_length |->
             UDP_DATAGRAM_MAX_SIZE - 1
               - (1 + 2 + 4 + get_events_from_file[1].description_length)
               - (1 + 2 + 4 + get_events_from_file[2].description_length)
               - (1 + 2 + 4),
         ticket_count       |-> 1 ],
       [ event_id |-> 3, description_length |-> 1, ticket_count |-> 1 ] >>

Catalogs == { get_events_from_file, long_events_file }

InitCatalogs ==
    /\ queue_reservations = << >>
    /\ reservations = << >>
    /\ events \in Catalogs
    /\ ticket_counter = 1
    /\ reservation_counter = ID_LIMIT + 1
    /\ timeout \in 1..MaxTimeout
    /\ received_message = [i \in 1..sizeof_received_message_t |-> 0]
    /\ message_time = 0
    /\ running = TRUE
    /\ datagram_length = 0
    /\ sent = << >>
    /\ swept = Controller
    /\ issued = << >>
    /\ collected = {}
    /\ steady = TRUE
    /\ received = 0

SpecCatalogs == InitCatalogs /\ [][Next]_vars

(***************************************************************************)
(* What the properties below speak about.                                  *)
(***************************************************************************)

\* The last iteration ran to its end (there was one, and nothing was thrown).
Served == received > 0 /\ running

\* The request the dispatcher saw in the last iteration.
Seen(kind) == Served /\ message_id(received_message) = kind

SeenReservation == change_reservation_endian(reservation_msg(received_message))

SeenTickets == change_tickets_endian(tickets_msg(received_message))

\* The reply of the last iteration is of this kind.
Replied(kind) == sent # << >> /\ sent[1].message_id = kind

\* The startup catalog holds an event with this id.
InCatalog(event_id) == event_id \in 0..(Len(get_events_from_file) - 1)

\* The sum of ticket_count over the reservations of m with their id in ids.
RECURSIVE TicketSum(_, _)
TicketSum(m, ids) ==
    IF ids = {} THEN 0
    ELSE LET id == CHOOSE x \in ids : TRUE
         IN  m[id].ticket_count + TicketSum(m, ids \ {id})

\* The reservations for the event in the map: not collected, and collected.
Uncollected(event_id) ==
    { id \in DOMAIN reservations : /\ reservations[id].event_id = event_id
                                   /\ reservations[id].first_ticket_number = 0 }

Collected(event_id) ==
    { id \in DOMAIN reservations : /\ reservations[id].event_id = event_id
                                   /\ reservations[id].first_ticket_number # 0 }

\* The ids of the RESERVATION replies sent so far.
IssuedIds == { ntohl(issued[i].reservation_id) : i \in 1..Len(issued) }

\* The ticket codes of a TICKETS reply, and the ticket numbers of a
\* collected reservation.
Codes(reply) == { reply.tickets[i] : i \in 1..Len(reply.tickets) }

Numbers(r) == r.first_ticket_number..(r.first_ticket_number + r.ticket_count - 1)

\* The last request was a GET_TICKETS with the id and the cookie of the
\* RESERVATION reply r.
Redeeming(r) ==
    /\ Seen(GET_TICKETS)
    /\ tickets_msg(received_message).reservation_id = r.reservation_id
    /\ tickets_msg(received_message).cookie = r.cookie

\* The last reply was TICKETS for r, with as many codes as r has tickets.
Granted(r) ==
    /\ Replied(TICKETS)
    /\ sent[1].reservation_id = r.reservation_id
    /\ sent[1].ticket_count = r.ticket_count
    /\ Len(sent[1].tickets) = ntohs(r.ticket_count)

\* The last reply was BAD_REQUEST with this id on the wire.
Refused(id) ==
    /\ Replied(BAD_REQUEST)
    /\ ntohl(sent[1].id) = id

\* The reservation with this id had been collected before the last request.
CollectedBefore(id) ==
    /\ id \in DOMAIN swept.reservations
    /\ swept.reservations[id].first_ticket_number # 0

(***************************************************************************)
(* C1.  Inventory conservation: for every event, the tickets left plus     *)
(* the tickets of the uncollected reservations in the map plus the         *)
(* tickets of the collected reservations in the map are the tickets the    *)
(* event had in the startup catalog.                                       *)
(***************************************************************************)
C1_InventoryConservation ==
    \A e \in 1..Len(get_events_from_file) :
        events[e].ticket_count
          + TicketSum(reservations, Uncollected(e - 1))
          + TicketSum(reservations, Collected(e - 1))
        = get_events_from_file[e].ticket_count

\* One reservation has expired and was refunded, another one is collected.
C1_Witness ==
    /\ \E id \in IssuedIds : id \notin DOMAIN reservations
    /\ \E id \in DOMAIN reservations : reservations[id].first_ticket_number # 0
    /\ \E e \in 1..Len(events) :
          events[e].ticket_count < get_events_from_file[e].ticket_count

(***************************************************************************)
(* C2.  Ticket uniqueness: the codes of TICKETS replies for two different  *)
(* reservations are never equal, the codes of one TICKETS reply are        *)
(* pairwise distinct, and the ticket numbers of two collected              *)
(* reservations are disjoint.  (Different ticket numbers get different     *)
(* codes: seen here for the numbers up to two times the base.)             *)
(***************************************************************************)
C2_TicketUniqueness ==
    /\ received = 0 =>
          \A m \in 0..(2 * TICKET_CODE_BASE) : \A n \in 0..(2 * TICKET_CODE_BASE) :
              m # n => generate_ticket_code(m) # generate_ticket_code(n)
    /\ \A a \in collected : \A b \in collected :
          a.reservation_id # b.reservation_id => Codes(a) \cap Codes(b) = {}
    /\ \A a \in collected :
          /\ Cardinality(Codes(a)) = Len(a.tickets)
          /\ \A code \in Codes(a) : Len(code) = TICKET_LENGTH
    /\ \A i \in DOMAIN reservations : \A j \in DOMAIN reservations :
          ( /\ i # j
            /\ reservations[i].first_ticket_number # 0
            /\ reservations[j].first_ticket_number # 0 )
          => Numbers(reservations[i]) \cap Numbers(reservations[j]) = {}

\* Two reservations have been collected, one of them for two tickets.
C2_Witness ==
    /\ \E a \in collected : \E b \in collected :
          a.reservation_id # b.reservation_id /\ Len(a.tickets) = 2
    /\ \E i \in DOMAIN reservations : \E j \in DOMAIN reservations :
          /\ i # j
          /\ reservations[i].first_ticket_number # 0
          /\ reservations[j].first_ticket_number # 0

(***************************************************************************)
(* C3.  Redeem before the deadline succeeds: a GET_TICKETS with the id and *)
(* the cookie of a RESERVATION reply that arrives at a time before the     *)
(* expiration_time of that reply is answered with TICKETS carrying as many *)
(* codes as the reservation has tickets.                                   *)
(*                                                                         *)
(* C3_RedeemBeforeDeadline is the claim as made, for any clock values.     *)
(* C3_RedeemBeforeDeadlineSteady is the claim for the runs in which the    *)
(* clock values of successive requests never decrease.                     *)
(***************************************************************************)
C3_RedeemBeforeDeadline ==
    \A i \in 1..Len(issued) :
        ( /\ Redeeming(issued[i])
          /\ message_time < be64toh(issued[i].expiration_time) )
        => Granted(issued[i])

C3_RedeemBeforeDeadlineSteady ==
    \A i \in 1..Len(issued) :
        ( /\ steady
          /\ Redeeming(issued[i])
          /\ message_time < be64toh(issued[i].expiration_time) )
        => Granted(issued[i])

\* A reservation is redeemed before its deadline, after another request
\* was served at a time when it had not expired either.
C3_Witness ==
    /\ steady
    /\ received >= 3
    /\ \E i \in 1..Len(issued) :
          /\ Redeeming(issued[i])
          /\ message_time < be64toh(issued[i].expiration_time)
          /\ Granted(issued[i])

(***************************************************************************)
(* C4.  Redemption is idempotent and permanent: once a TICKETS reply has   *)
(* been sent for a reservation, every later GET_TICKETS with its id and    *)
(* cookie is answered with TICKETS, at any time; all the TICKETS replies   *)
(* for one reservation are the same; a repeated redemption leaves          *)
(* ticket_counter where it was; and the reservation stays in the map.      *)
(***************************************************************************)
C4_RedemptionIdempotent ==
    /\ \A t \in collected : ntohl(t.reservation_id) \in DOMAIN reservations
    /\ \A a \in collected : \A b \in collected :
          a.reservation_id = b.reservation_id => a = b
    /\ \A i \in 1..Len(issued) :
          ( /\ Redeeming(issued[i])
            /\ \E t \in collected : t.reservation_id = issued[i].reservation_id )
          => Granted(issued[i])
    /\ ( /\ Seen(GET_TICKETS)
         /\ Replied(TICKETS)
         /\ CollectedBefore(SeenTickets.reservation_id) )
       => /\ ticket_counter = swept.ticket_counter
          /\ reservations = swept.reservations

\* A reservation collected earlier is redeemed again at or after its
\* expiration_time, when the sweep has taken its entry from the queue.
C4_Witness ==
    \E i \in 1..Len(issued) :
        /\ Redeeming(issued[i])
        /\ Granted(issued[i])
        /\ CollectedBefore(ntohl(issued[i].reservation_id))
        /\ message_time >= be64toh(issued[i].expiration_time)
        /\ \A k \in 1..Len(queue_reservations) :
              queue_reservations[k][1] # ntohl(issued[i].reservation_id)

(***************************************************************************)
(* C5.  Expired holds cannot be redeemed: when the clock values of         *)
(* successive requests never decrease, a GET_TICKETS with the id and the   *)
(* cookie of a reservation that was never redeemed, arriving at or after   *)
(* its expiration_time, is answered with BAD_REQUEST, and the reservation  *)
(* is not in the map.                                                      *)
(***************************************************************************)
C5_ExpiredNotRedeemable ==
    \A i \in 1..Len(issued) :
        ( /\ steady
          /\ Redeeming(issued[i])
          /\ message_time >= be64toh(issued[i].expiration_time)
          /\ ~ CollectedBefore(ntohl(issued[i].reservation_id)) )
        => /\ Refused(ntohl(issued[i].reservation_id))
           /\ ntohl(issued[i].reservation_id) \notin DOMAIN reservations
           /\ ntohl(issued[i].reservation_id) \notin DOMAIN swept.reservations

\* Such a request arrives exactly at the expiration_time and is refused.
C5_Witness ==
    \E i \in 1..Len(issued) :
        /\ steady
        /\ Redeeming(issued[i])
        /\ message_time = be64toh(issued[i].expiration_time)
        /\ ~ CollectedBefore(ntohl(issued[i].reservation_id))
        /\ Refused(ntohl(issued[i].reservation_id))

(***************************************************************************)
(* C6.  Reserve refusal is exactly characterised: a GET_RESERVATION is     *)
(* answered with BAD_REQUEST carrying its event id if and only if its      *)
(* count is 0, or 7 * count + 7 > 65507, or its event id is not in the     *)
(* catalog, or the event has (after the sweep) fewer tickets than count;   *)
(* in every other case it is answered with RESERVATION.                    *)
(***************************************************************************)
C6_ReserveRefusal ==
    Seen(GET_RESERVATION) =>
        LET message == SeenReservation
            refuse ==
                \/ message.ticket_count = 0
                \/ TICKET_LENGTH * message.ticket_count + 7 > UDP_DATAGRAM_MAX_SIZE
                \/ ~ InCatalog(message.event_id)
                \/ swept.events[message.event_id + 1].ticket_count < message.ticket_count
        IN  /\ refuse <=> Refused(message.event_id)
            /\ ~ refuse => Replied(RESERVATION)

\* A request is refused only for the length of the TICKETS reply it would
\* lead to: the event is in the catalog and has that many tickets.
C6_Witness ==
    /\ Seen(GET_RESERVATION)
    /\ InCatalog(SeenReservation.event_id)
    /\ SeenReservation.ticket_count > 0
    /\ SeenReservation.ticket_count
         <= swept.events[SeenReservation.event_id + 1].ticket_count
    /\ Refused(SeenReservation.event_id)

(***************************************************************************)
(* C7.  A refused reserve changes nothing: when a GET_RESERVATION is       *)
(* answered with BAD_REQUEST, the events, the reservation map, the queue   *)
(* and both counters are as the sweep of that request left them.           *)
(***************************************************************************)
C7_RefusedReserveChangesNothing ==
    ( Seen(GET_RESERVATION) /\ Replied(BAD_REQUEST) ) => Controller = swept

\* A request is refused because the event has too few tickets left, while
\* a reservation is held.
C7_Witness ==
    /\ Seen(GET_RESERVATION)
    /\ Replied(BAD_REQUEST)
    /\ InCatalog(SeenReservation.event_id)
    /\ SeenReservation.ticket_count > 0
    /\ swept.events[SeenReservation.event_id + 1].ticket_count
         < SeenReservation.ticket_count
    /\ TICKET_LENGTH * SeenReservation.ticket_count + 7 <= UDP_DATAGRAM_MAX_SIZE
    /\ DOMAIN reservations # {}

(***************************************************************************)
(* C8.  Redeem refusal: a GET_TICKETS whose id is not in the reservation   *)
(* map, or whose cookie differs from the stored one in at least one byte,  *)
(* is answered with BAD_REQUEST carrying its id, and the controller is as  *)
(* the sweep of that request left it.                                      *)
(***************************************************************************)
C8_RedeemRefusal ==
    Seen(GET_TICKETS) =>
        LET message == SeenTickets
            refuse ==
                \/ message.reservation_id \notin DOMAIN swept.reservations
                \/ \E k \in 1..COOKIE_LENGTH :
                      message.cookie[k]
                        # swept.reservations[message.reservation_id].cookie[k]
        IN  refuse => ( Refused(message.reservation_id) /\ Controller = swept )

\* A cookie that differs from the stored one in its last byte only is
\* refused, and the reservation is still there and not collected.
C8_Witness ==
    /\ Seen(GET_TICKETS)
    /\ Refused(SeenTickets.reservation_id)
    /\ SeenTickets.reservation_id \in DOMAIN reservations
    /\ reservations[SeenTickets.reservation_id].first_ticket_number = 0
    /\ \A k \in 1..(COOKIE_LENGTH - 1) :
          SeenTickets.cookie[k] = reservations[SeenTickets.reservation_id].cookie[k]

(***************************************************************************)
(* C9.  Wrong-length datagrams are dropped: a datagram that is empty, or   *)
(* whose first byte is 1, 3 or 5 and whose length is not the length of     *)
(* that request (1, 7, 53), gets no reply and leads to no reserve and no   *)
(* redeem (the controller is as the sweep left it).                        *)
(***************************************************************************)
request_length(kind) ==
    IF kind = GET_EVENTS THEN 1
    ELSE IF kind = GET_RESERVATION THEN 1 + 4 + 2
    ELSE 1 + 4 + COOKIE_LENGTH

C9_WrongLengthDropped ==
    ( /\ Served
      /\ \/ datagram_length = 0
         \/ /\ message_id(received_message) \in {GET_EVENTS, GET_RESERVATION, GET_TICKETS}
            /\ datagram_length # request_length(message_id(received_message)) )
    => ( sent = << >> /\ Controller = swept )

(***************************************************************************)
(* C10.  Reservation ids are strictly increasing: of two RESERVATION       *)
(* replies the later one has the greater id, and every id is above         *)
(* 999999; so no id is issued twice, also after its reservation expired.   *)
(***************************************************************************)
C10_IdsIncreasing ==
    /\ \A i \in 1..Len(issued) : ntohl(issued[i].reservation_id) > ID_LIMIT
    /\ \A i \in 1..Len(issued) : \A j \in 1..Len(issued) :
          i < j => ntohl(issued[i].reservation_id) < ntohl(issued[j].reservation_id)

\* A reservation is issued after an earlier one has expired and was erased.
C10_Witness ==
    /\ Len(issued) >= 2
    /\ Replied(RESERVATION)
    /\ ntohl(issued[1].reservation_id) \notin DOMAIN reservations
    /\ reservations # << >>

(***************************************************************************)
(* C11.  Reservation id numbering: the first RESERVATION reply after       *)
(* startup carries the id 1000001 and the k-th one the id 1000000 + k,     *)
(* whatever requests were refused in between.                              *)
(***************************************************************************)
C11_IdNumbering ==
    \A k \in 1..Len(issued) :
        ntohl(issued[k].reservation_id) = ID_LIMIT + 1 + k

(***************************************************************************)
(* C12.  Ticket code value: the code of ticket number n is the numeral of  *)
(* n in base 36 over 0-9A-Z, most significant digit first, padded with '0' *)
(* on the left to 7 characters; so the i-th code of every TICKETS reply is *)
(* that numeral of first_ticket_number + i - 1 of its reservation, and the *)
(* first ticket handed out after startup has the code "0000001".           *)
(***************************************************************************)
Base36Digit(d) ==
    IF d <= 9 THEN d + BEG_NUMBERS ELSE d + BEG_BIG_LETTERS - 10

\* The last length digits of n in base 36, most significant first.
RECURSIVE Base36Numeral(_, _)
Base36Numeral(n, length) ==
    IF length = 0 THEN << >>
    ELSE Append(Base36Numeral(n \div TICKET_CODE_BASE, length - 1),
                Base36Digit(n % TICKET_CODE_BASE))

C12_TicketCodeValue ==
    \A t \in collected :
        LET r == reservations[ntohl(t.reservation_id)]
        IN  \A i \in 1..Len(t.tickets) :
                t.tickets[i] = Base36Numeral(r.first_ticket_number + (i - 1),
                                             TICKET_LENGTH)

(***************************************************************************)
(* C13.  The expiry refund is visible to the request that triggers it:     *)
(* when the clock values of successive requests never decrease, a request  *)
(* arriving at or after the expiration_time of a reservation R that was    *)
(* never redeemed is handled on a controller from which the sweep of that  *)
(* same request has erased R and in which R's tickets are back in the      *)
(* count of R's event (the count and the tickets of the reservations still *)
(* in the map add up to the catalog's count); a GET_EVENTS in that request *)
(* reports that count, and a GET_RESERVATION in that request for at most   *)
(* that many tickets of the event is granted.                              *)
(***************************************************************************)
SweptHeld(event_id) ==
    { id \in DOMAIN swept.reservations : swept.reservations[id].event_id = event_id }

C13_RefundVisible ==
    \A i \in 1..Len(issued) :
        LET id == ntohl(issued[i].reservation_id)
            e == ntohl(issued[i].event_id) + 1
        IN  ( /\ steady
              /\ Served
              /\ message_time >= be64toh(issued[i].expiration_time)
              /\ ~ CollectedBefore(id) )
            => /\ id \notin DOMAIN swept.reservations
               /\ swept.events[e].ticket_count
                    + TicketSum(swept.reservations, SweptHeld(e - 1))
                  = get_events_from_file[e].ticket_count
               /\ Seen(GET_EVENTS) =>
                    /\ Replied(EVENTS)
                    /\ Len(sent[1].events) >= e
                    /\ ntohs(sent[1].events[e].ticket_count)
                         = swept.events[e].ticket_count
               /\ ( /\ Seen(GET_RESERVATION)
                    /\ SeenReservation.event_id = e - 1
                    /\ SeenReservation.ticket_count \in 1..swept.events[e].ticket_count
                    /\ TICKET_LENGTH * SeenReservation.ticket_count + 7
                         <= UDP_DATAGRAM_MAX_SIZE )
                  => /\ Replied(RESERVATION)
                     /\ events[e].ticket_count
                          = swept.events[e].ticket_count - SeenReservation.ticket_count

\* The only ticket of event 0 is reserved, and the very next request, at or
\* after the expiration_time, reserves it again.
C13_Witness ==
    /\ steady
    /\ received = 2
    /\ Len(issued) = 2
    /\ Replied(RESERVATION)
    /\ ntohl(issued[1].event_id) = 0
    /\ ntohl(issued[2].event_id) = 0
    /\ message_time >= be64toh(issued[1].expiration_time)
    /\ ntohl(issued[1].reservation_id) \notin DOMAIN reservations
    /\ events[1].ticket_count = 0

(***************************************************************************)
(* C14.  Ticket code format: every ticket code in a TICKETS reply is 7     *)
(* bytes long and each byte is one of '0'..'9' or 'A'..'Z'; and so is what *)
(* send_tickets copies of the code of every ticket number the catalog      *)
(* allows (from 1 to the number of tickets in the catalog).                *)
(***************************************************************************)
TicketCodeFormat(code) ==
    /\ Len(code) = TICKET_LENGTH
    /\ \A k \in 1..Len(code) :
          \/ code[k] \in BEG_NUMBERS..(BEG_NUMBERS + 9)
          \/ code[k] \in BEG_BIG_LETTERS..(BEG_BIG_LETTERS + TICKET_CODE_BASE - 11)

\* The number of tickets in the startup catalog.
RECURSIVE CatalogTickets(_)
CatalogTickets(e) ==
    IF e = 0 THEN 0
    ELSE get_events_from_file[e].ticket_count + CatalogTickets(e - 1)

C14_TicketCodeFormat ==
    /\ \A t \in collected : \A i \in 1..Len(t.tickets) : TicketCodeFormat(t.tickets[i])
    /\ received = 0 =>
          \A n \in 1..CatalogTickets(Len(get_events_from_file)) :
              TicketCodeFormat(SubSeq(generate_ticket_code(n), 1, TICKET_LENGTH))

\* Two reservations have been collected: TICKETS replies with one and with
\* two codes were sent, for the ticket numbers 1 to 3.
C14_Witness ==
    /\ Replied(TICKETS)
    /\ ticket_counter = 4
    /\ \E a \in collected : \E b \in collected :
          Len(a.tickets) = 1 /\ Len(b.tickets) = 2

(***************************************************************************)
(* C15.  Order of the pending-expiry queue: the entries of                 *)
(* queue_reservations are in non-decreasing expiration_time order from     *)
(* front to back, and the sweep, which stops at the first entry with       *)
(* expiration_time > now, leaves no entry with expiration_time <= now in   *)
(* the queue.                                                              *)
(*                                                                         *)
(* C15_QueueOrdered is the claim as made, for any clock values.            *)
(* C15_QueueOrderedSteady is the claim for the runs in which the clock     *)
(* values of successive requests never decrease.                           *)
(***************************************************************************)
QueueOrdered(queue) ==
    \A i \in 1..Len(queue) : \A j \in 1..Len(queue) :
        i < j => queue[i][2] <= queue[j][2]

\* The sweep of the last iteration left no entry behind that had expired.
NothingLeftBehind ==
    Served =>
        \A k \in 1..Len(swept.queue_reservations) :
            swept.queue_reservations[k][2] > message_time

FirstRedemption(message, after) ==
    /\ message.reservation_id \in DOMAIN after
    /\ after[message.reservation_id].first_ticket_number = 0
    /\ message.cookie = after[message.reservation_id].cookie

\* One iteration, from the state before it to the primed state after it.
TicketCounterStep ==
    IF message_id(received_message') # GET_TICKETS
    THEN ticket_counter' = ticket_counter
    ELSE \E message \in {SeenTickets'} : \E after \in {swept'.reservations} :
            IF FirstRedemption(message, after)
            THEN LET id == message.reservation_id
                 IN  /\ Replied(TICKETS)'
                     /\ id \in DOMAIN reservations
                     /\ reservations[id].first_ticket_number = 0
                     /\ ticket_counter' = ticket_counter + reservations[id].ticket_count
                     /\ reservations'[id].first_ticket_number = ticket_counter
            ELSE ticket_counter' = ticket_counter

C16_TicketCounterMoves ==
    /\ ticket_counter = 1
    /\ [][TicketCounterStep]_vars

\* The second first redemption has just happened, for two tickets, when
\* the other reservation had been collected: ticket_counter went from 2 to 4.
C16_Witness ==
    /\ Replied(TICKETS)
    /\ Seen(GET_TICKETS)
    /\ swept.ticket_counter = 2
    /\ ticket_counter = 4
    /\ swept.reservations[SeenTickets.reservation_id].first_ticket_number = 0
    /\ reservations[SeenTickets.reservation_id].first_ticket_number = 2

(***************************************************************************)
(* C17.  Effect of a successful reserve: when a GET_RESERVATION for count  *)
(* tickets of an event is answered with RESERVATION, then, against the     *)
(* controller as the sweep of that request left it: the event's            *)
(* ticket_count is lower by exactly count and no other event has changed;  *)
(* the map has exactly one more reservation, with a new id, the requested  *)
(* event_id and count, expiration_time = now + timeout and                 *)
(* first_ticket_number = 0; the queue has exactly one more entry, at the   *)
(* back, with that id and that expiration_time; the other reservations and *)
(* ticket_counter are unchanged; and the reply carries the id, event_id,   *)
(* count, cookie and expiration_time of the stored reservation.            *)
(***************************************************************************)
C17_ReserveEffect ==
    ( Seen(GET_RESERVATION) /\ Replied(RESERVATION) ) =>
        LET message == SeenReservation
            e == message.event_id + 1
            id == ntohl(sent[1].reservation_id)
        IN  /\ InCatalog(message.event_id)
            /\ events[e].ticket_count
                 = swept.events[e].ticket_count - message.ticket_count
            /\ events = [swept.events EXCEPT ![e].ticket_count = events[e].ticket_count]
            /\ id \notin DOMAIN swept.reservations
            /\ DOMAIN reservations = DOMAIN swept.reservations \cup {id}
            /\ \A k \in DOMAIN swept.reservations :
                  reservations[k] = swept.reservations[k]
            /\ reservations[id].reservation_id = id
            /\ reservations[id].event_id = message.event_id
            /\ reservations[id].ticket_count = message.ticket_count
            /\ reservations[id].expiration_time = message_time + timeout
            /\ reservations[id].first_ticket_number = 0
            /\ queue_reservations
                 = Append(swept.queue_reservations,
                          << id, reservations[id].expiration_time >>)
            /\ ticket_counter = swept.ticket_counter
            /\ timeout = swept.timeout
            /\ ntohl(sent[1].event_id) = reservations[id].event_id
            /\ ntohs(sent[1].ticket_count) = reservations[id].ticket_count
            /\ be64toh(sent[1].expiration_time) = reservations[id].expiration_time
            /\ Len(sent[1].cookie) = COOKIE_LENGTH
            /\ \A k \in 1..COOKIE_LENGTH :
                  sent[1].cookie[k] = reservations[id].cookie[k]

\* Two tickets of event 1 are reserved at clock value 1 while a reservation
\* for event 0 is held and stays as it was.
C17_Witness ==
    /\ Seen(GET_RESERVATION)
    /\ Replied(RESERVATION)
    /\ message_time = 1
    /\ SeenReservation.event_id = 1
    /\ events[2].ticket_count = get_events_from_file[2].ticket_count - 2
    /\ DOMAIN swept.reservations # {}
    /\ Len(queue_reservations) = 2
    /\ queue_reservations[2] = << ntohl(sent[1].reservation_id), 1 + timeout >>

(***************************************************************************)
(* C18.  EVENTS truncation: a GET_EVENTS is answered with EVENTS listing   *)
(* the events with the ids 0..k-1 in id order, each with its current       *)
(* ticket_count, where k is the largest number such that 1 plus the sum of *)
(* 7 + description_length over those events is at most 65507; the reply    *)
(* is that many bytes long, so never more than 65507; it is the whole      *)
(* catalog when the whole catalog fits; and the controller is as the sweep *)
(* of that request left it.  Checked for the server started on each of the *)
(* catalogs of Catalogs.                                                   *)
(***************************************************************************)
\* The length of an EVENTS message with the first n events of evs.
RECURSIVE EventsSize(_, _)
EventsSize(evs, n) ==
    IF n = 0 THEN 1
    ELSE EventsSize(evs, n - 1) + 1 + 2 + 4 + evs[n].description_length

C18_EventsTruncation ==
    Seen(GET_EVENTS) =>
        /\ Replied(EVENTS)
        /\ Controller = swept
        /\ \E k \in {Len(sent[1].events)} :
            /\ k <= Len(events)
            /\ EventsSize(events, k) <= UDP_DATAGRAM_MAX_SIZE
            /\ k < Len(events) => EventsSize(events, k + 1) > UDP_DATAGRAM_MAX_SIZE
            /\ sent[1].size = EventsSize(events, k)
            /\ \A i \in 1..k :
                  /\ ntohl(sent[1].events[i].event_id) = i - 1
                  /\ ntohs(sent[1].events[i].ticket_count) = events[i].ticket_count

\* The reply is cut: it fills the datagram to its last byte, the last event
\* of the catalog is left out, and it reports the ticket of event 0 as held.
C18_Witness ==
    /\ Seen(GET_EVENTS)
    /\ Replied(EVENTS)
    /\ Len(sent[1].events) < Len(events)
    /\ sent[1].size = UDP_DATAGRAM_MAX_SIZE
    /\ ntohs(sent[1].events[1].ticket_count) = 0
    /\ reservations # << >>

(***************************************************************************)
(* C19.  The lookup of the sweep never fails: no reservation id occurs     *)
(* twice in queue_reservations, every id in the queue is a key of the      *)
(* reservation map, and no exception has left main, whatever requests      *)
(* were served at whatever clock values.                                   *)
(***************************************************************************)
C19_SweepLookupNeverFails ==
    /\ running
    /\ \A i \in 1..Len(queue_reservations) : \A j \in 1..Len(queue_reservations) :
          i # j => queue_reservations[i][1] # queue_reservations[j][1]
    /\ \A i \in 1..Len(queue_reservations) :
          queue_reservations[i][1] \in DOMAIN reservations

\* The sweep has looked up two entries: the one of a reservation that had
\* been collected, which stays in the map, and the one of a reservation
\* that it erased.
C19_Witness ==
    /\ running
    /\ Len(issued) = 2
    /\ queue_reservations = << >>
    /\ Cardinality(DOMAIN reservations) = 1
    /\ \A id \in DOMAIN reservations : reservations[id].first_ticket_number # 0
    /\ \E id \in IssuedIds : id \notin DOMAIN reservations

(***************************************************************************)
(* C20.  No held tickets are orphaned: every reservation in the map with   *)
(* first_ticket_number = 0 has exactly one entry in queue_reservations,    *)
(* and that entry carries the reservation's expiration_time (for any       *)
(* clock values); and when the clock values of successive requests never   *)
(* decrease, the sweep of every request leaves no such reservation in the  *)
(* map whose expiration_time has come, with the tickets of the erased ones *)
(* back in the counts of their events: a reservation that is never         *)
(* redeemed is erased and refunded by the first request arriving at or     *)
(* after its expiration_time.                                              *)
(***************************************************************************)
QueueEntries(id) ==
    { k \in 1..Len(queue_reservations) : queue_reservations[k][1] = id }

C20_NoOrphanedHolds ==
    /\ \A id \in DOMAIN reservations :
          reservations[id].first_ticket_number = 0 =>
              /\ Cardinality(QueueEntries(id)) = 1
              /\ \A k \in QueueEntries(id) :
                    queue_reservations[k][2] = reservations[id].expiration_time
    /\ ( steady /\ Served ) =>
          /\ \A id \in DOMAIN swept.reservations :
                swept.reservations[id].first_ticket_number = 0 =>
                    swept.reservations[id].expiration_time > message_time
          /\ \A e \in 1..Len(get_events_from_file) :
                swept.events[e].ticket_count
                  + TicketSum(swept.reservations, SweptHeld(e - 1))
                = get_events_from_file[e].ticket_count

\* The request that arrives at the expiration_time of a reservation nobody
\* redeemed has erased it, and the reservation made by that same request is
\* held with its one queue entry.
C20_Witness ==
    /\ steady
    /\ Served
    /\ collected = {}
    /\ Len(issued) = 2
    /\ message_time = be64toh(issued[1].expiration_time)
    /\ ntohl(issued[1].reservation_id) \notin DOMAIN swept.reservations
    /\ ntohl(issued[2].reservation_id) \in DOMAIN reservations
    /\ queue_reservations
         = << << ntohl(issued[2].reservation_id), be64toh(issued[2].expiration_time) >> >>

====
